---- MODULE Spec2Model ----
(***************************************************************************)
(* Model of the Sollumz map-data exporter (ymap/ymapexport.py) and the     *)
(* drawable-dictionary exporter (ydd/yddexport.py).                        *)
(*                                                                         *)
(* Units.  Angles are integers in milliradians (0.01 rad = 10).  Lengths   *)
(* of box occluders are integers in eighths of a unit, so that the         *)
(* quarter-unit quantisation round(v * 4) is a real rounding.  Names are   *)
(* records [stem, upper, notfound, num]: "Prop (not found).001" is         *)
(* [stem |-> "prop", upper |-> TRUE, notfound |-> TRUE, num |-> 1].        *)
(***************************************************************************)
EXTENDS Integers, Sequences, FiniteSets, TLC

VARIABLES
    children,   \* obj.children: the groups of the map container, with their objects
    props,      \* obj.ymap_properties of the map container (and obj.name)
    settings,   \* get_export_settings(): the four ymap_* exclusion flags
    game,       \* current_game(): the import/export game variant
    result,     \* what the last ymap_from_object call returned or Raised
    prev,       \* what the call before that returned
    log,        \* the diagnostics of the last ymap_from_object call
    encoded,    \* names of the objects the last call handed to model_from_obj
    runs,       \* ymap_from_object calls since the last change of the settings
    ydd_obj,    \* the drawable-dictionary container
    ydd_xml,    \* what the last create_ydd_xml call returned
    ydd_prev    \* what the call before that returned

vars == <<children, props, settings, game, result, prev, log, encoded, runs,
          ydd_obj, ydd_xml, ydd_prev>>

ymapVars == <<children, props, result, prev, log, encoded, runs>>
yddVars == <<ydd_obj, ydd_xml, ydd_prev>>

-----------------------------------------------------------------------------
(* Bounds *)

\* Objects in the map container, over all its groups.
MaxObjs == 2

\* Children of the drawable-dictionary container.
MaxYddChildren == 3

-----------------------------------------------------------------------------
(* Program constants *)

\* abs(rotation.x) > 0.01, in milliradians
Tolerance == 10

\* len(model_obj.data.vertices) > 256
MaxVerts == 256

\* len(obj.data.vertices) * 12
BytesPerVert == 12

\* face_count * 3 in the assertion
BytesPerTri == 3

\* face_count | 0x8000
FormatMarker == 32768

\* 5 * math.sin(angle)
CargenRadius == 5

\* round(dir.x * 32767)
DirScale == 32767

\* Python's None, and the outcome of a call that raised
None == [none |-> TRUE]
Raised == [raised |-> TRUE]

-----------------------------------------------------------------------------
(* Sequences *)

Range(s) == {s[i] : i \in 1..Len(s)}

RECURSIVE Flatten(_)
Flatten(ss) == IF ss = <<>> THEN <<>> ELSE Head(ss) \o Flatten(Tail(ss))

Abs(x) == IF x < 0 THEN -x ELSE x

-----------------------------------------------------------------------------
(* Names: Blender's object names and the helpers applied to them *)

MkName(stem, upper, notfound, num) ==
    [stem |-> stem, upper |-> upper, notfound |-> notfound, num |-> num]

\* str.lower()
Lower(name) == [name EXCEPT !.upper = FALSE]

\* re.sub(" \(not found\)", "", name)
StripNotFound(name) == [name EXCEPT !.notfound = FALSE]

\* tools.blenderhelper.remove_number_suffix: drops a trailing ".NNN"
remove_number_suffix(name) == [name EXCEPT !.num = 0]

\* The names of all objects below the container but child i of group g.
NamesBut(groups, g, i) ==
    UNION {{groups[h].children[j].name :
                j \in {k \in 1..Len(groups[h].children) : ~(h = g /\ k = i)}} :
           h \in 1..Len(groups)}

\* Assigning obj.name: Blender keeps names unique, and gives the object being
\* renamed the first free numeric suffix when the name is taken.
UniqueName(taken, name) ==
    IF name \notin taken THEN name
    ELSE LET free == {n \in 1..(Cardinality(taken) + 1) :
                          [name EXCEPT !.num = n] \notin taken}
             n == CHOOSE m \in free : \A k \in free : m <= k
         IN [name EXCEPT !.num = n]

-----------------------------------------------------------------------------
(* Numbers *)

\* Python's round(n / 2), which rounds a half to the even neighbour.
RoundHalf(n) ==
    LET q == n \div 2
    IN IF n % 2 = 0 THEN q ELSE IF q % 2 = 0 THEN q ELSE q + 1

\* round(v * 4) for v given in eighths of a unit
Quantize(v8) == RoundHalf(v8)

\* round(n / 4): the centre of two bounds given in eighths, times 4
RoundQuarter(n) ==
    LET q == n \div 4
        r == n % 4
    IN IF r < 2 THEN q ELSE IF r > 2 THEN q + 1 ELSE IF q % 2 = 0 THEN q ELSE q + 1

\* math.sin and math.cos on the quarter turns, in milliradians
Sin(a) == CASE a = 0 -> 0 [] a = 1571 -> 1 [] a = -1571 -> -1
            [] a = 3142 -> 0 [] a = -3142 -> 0
Cos(a) == CASE a = 0 -> 1 [] a = 1571 -> 0 [] a = -1571 -> 0
            [] a = 3142 -> -1 [] a = -3142 -> -1

\* Hamilton product of quaternions <<w, x, y, z>>
QMul(p, q) ==
    << p[1]*q[1] - p[2]*q[2] - p[3]*q[3] - p[4]*q[4],
       p[1]*q[2] + p[2]*q[1] + p[3]*q[4] - p[4]*q[3],
       p[1]*q[3] - p[2]*q[4] + p[3]*q[1] + p[4]*q[2],
       p[1]*q[4] + p[2]*q[3] - p[3]*q[2] + p[4]*q[1] >>

\* The quaternion of a rotation by 0 or by a half turn about one axis
\* (cos and sin of half the angle are 1, 0 and 0, 1).
AxisQuat(axis, a) ==
    IF a = 0 THEN <<1, 0, 0, 0>>
    ELSE [k \in 1..4 |-> IF k = axis + 1 THEN (IF a > 0 THEN 1 ELSE -1) ELSE 0]

\* Euler.to_quaternion() for the XYZ order: Rz * Ry * Rx
to_quaternion(e) ==
    QMul(AxisQuat(3, e[3]), QMul(AxisQuat(2, e[2]), AxisQuat(1, e[1])))

\* Quaternion.invert() of a unit quaternion: its conjugate
invert(q) == <<q[1], -q[2], -q[3], -q[4]>>

-----------------------------------------------------------------------------
(* The scene: SollumType roles and the objects of each group *)

YMAP_ENTITY_GROUP == "YMAP_ENTITY_GROUP"
YMAP_BOX_OCCLUDER_GROUP == "YMAP_BOX_OCCLUDER_GROUP"
YMAP_MODEL_OCCLUDER_GROUP == "YMAP_MODEL_OCCLUDER_GROUP"
YMAP_CAR_GENERATOR_GROUP == "YMAP_CAR_GENERATOR_GROUP"
YMAP_BOX_OCCLUDER == "YMAP_BOX_OCCLUDER"
YMAP_MODEL_OCCLUDER == "YMAP_MODEL_OCCLUDER"
YMAP_CAR_GENERATOR == "YMAP_CAR_GENERATOR"
DRAWABLE == "DRAWABLE"
NONE == "NONE"

GTA == "GTA"
RDR == "RDR"

\* The groups of a map container, in the order of obj.children.
GroupTypes == <<YMAP_ENTITY_GROUP, YMAP_BOX_OCCLUDER_GROUP,
                YMAP_MODEL_OCCLUDER_GROUP, YMAP_CAR_GENERATOR_GROUP>>

\* Entity placements.  kind is the placement kind the object was imported
\* with; rotation_euler holds half turns only.
EntityObjs ==
    { [name |-> MkName("prop", TRUE, TRUE, 0), kind |-> "CEntityDef",
       rotation_euler |-> <<3142, 0, 0>>, location |-> <<8, 0, 0>>,
       scale |-> <<2, 3, 1>>, flags |-> 32, guid |-> 7, lod_dist |-> 4,
       lod_level |-> "sollumz_LODTYPES_DEPTH_HD", blend_age |-> 1],
      [name |-> MkName("prop", FALSE, FALSE, 0), kind |-> "CMloInstanceDef",
       rotation_euler |-> <<0, 0, 3142>>, location |-> <<-8, 16, 0>>,
       scale |-> <<1, 1, 1>>, flags |-> 0, guid |-> 0, lod_dist |-> 8,
       lod_level |-> "sollumz_LODTYPES_DEPTH_LOD", blend_age |-> 0],
      [name |-> MkName("prop", FALSE, FALSE, 1), kind |-> "CEntityDef",
       rotation_euler |-> <<0, 0, 0>>, location |-> <<0, 0, 24>>,
       scale |-> <<1, 1, 2>>, flags |-> 1, guid |-> 9, lod_dist |-> 2,
       lod_level |-> "sollumz_LODTYPES_DEPTH_HD", blend_age |-> 2] }

\* Children of the box-occluder group: within tolerance (on its edge),
\* tilted about x, wrong role, wrong role and tilted about y.
BoxObjs ==
    { [sollum_type |-> YMAP_BOX_OCCLUDER, rotation_euler |-> <<10, 0, 1571>>,
       bbmin |-> <<-3, 2, 0>>, bbmax |-> <<4, 8, 10>>, dimensions |-> <<7, 6, 10>>],
      [sollum_type |-> YMAP_BOX_OCCLUDER, rotation_euler |-> <<11, 0, 0>>,
       bbmin |-> <<0, 0, 0>>, bbmax |-> <<2, 2, 2>>, dimensions |-> <<2, 2, 2>>],
      [sollum_type |-> NONE, rotation_euler |-> <<0, 0, 0>>,
       bbmin |-> <<0, 0, 0>>, bbmax |-> <<6, 2, 2>>, dimensions |-> <<6, 2, 2>>],
      [sollum_type |-> NONE, rotation_euler |-> <<0, -11, 0>>,
       bbmin |-> <<0, 0, 0>>, bbmax |-> <<2, 6, 2>>, dimensions |-> <<2, 6, 2>>] }

\* Children of the model-occluder group.  A polygon is its vertex indices
\* and its hide flag; a hidden polygon is not selected in edit mode.
Poly(verts, hide) == [vertices |-> verts, hide |-> hide]

ModelObjs ==
    { [sollum_type |-> YMAP_MODEL_OCCLUDER, nverts |-> 256,
       polygons |-> <<Poly(<<0, 1, 2, 255>>, FALSE), Poly(<<2, 1, 3>>, FALSE)>>,
       bbmin |-> <<0, 0, 0>>, bbmax |-> <<4, 4, 0>>, model_occl_flags |-> 3],
      [sollum_type |-> YMAP_MODEL_OCCLUDER, nverts |-> 257,
       polygons |-> <<Poly(<<0, 1, 256>>, FALSE)>>,
       bbmin |-> <<0, 0, 0>>, bbmax |-> <<9, 9, 9>>, model_occl_flags |-> 0],
      [sollum_type |-> YMAP_MODEL_OCCLUDER, nverts |-> 4,
       polygons |-> <<Poly(<<0, 1, 2>>, FALSE), Poly(<<0, 1, 2, 3>>, TRUE)>>,
       bbmin |-> <<0, 0, 0>>, bbmax |-> <<1, 1, 0>>, model_occl_flags |-> 0],
      [sollum_type |-> NONE, nverts |-> 300,
       polygons |-> <<Poly(<<0, 1, 2, 3>>, FALSE)>>,
       bbmin |-> <<0, 0, 0>>, bbmax |-> <<2, 2, 2>>, model_occl_flags |-> 1] }

\* Children of the car-generator group.
CargenObjs ==
    { [sollum_type |-> YMAP_CAR_GENERATOR, rotation_euler |-> <<0, -10, 1571>>,
       location |-> <<8, 8, 0>>, perpendicular_length |-> 3, car_model |-> "taxi",
       cargen_flags |-> 5],
      [sollum_type |-> YMAP_CAR_GENERATOR, rotation_euler |-> <<0, 12, 0>>,
       location |-> <<0, 0, 0>>, perpendicular_length |-> 2, car_model |-> "bus",
       cargen_flags |-> 0],
      [sollum_type |-> NONE, rotation_euler |-> <<0, 0, 0>>,
       location |-> <<1, 1, 1>>, perpendicular_length |-> 0, car_model |-> "",
       cargen_flags |-> 0],
      [sollum_type |-> NONE, rotation_euler |-> <<-20, 0, 0>>,
       location |-> <<2, 2, 2>>, perpendicular_length |-> 0, car_model |-> "",
       cargen_flags |-> 0] }

GroupObjs(g) ==
    CASE g = 1 -> EntityObjs [] g = 2 -> BoxObjs
      [] g = 3 -> ModelObjs [] g = 4 -> CargenObjs

GroupStem(g) ==
    CASE g = 1 -> "prop" [] g = 2 -> "box" [] g = 3 -> "occl" [] g = 4 -> "cargen"

\* A group of a new scene.  Entities carry their own names; Blender numbers
\* the other objects of a group as it creates them.
MkGroup(g, objs) ==
    [sollum_type |-> GroupTypes[g],
     children |->
        [i \in 1..Len(objs) |->
            IF g = 1 THEN objs[i]
            ELSE [name |-> MkName(GroupStem(g), FALSE, FALSE, i - 1)] @@ objs[i]]]

\* The map container's name and ymap_properties.
ContainerProps ==
    { [name |-> MkName("map", FALSE, FALSE, 1), parent |-> "", flags |-> 2,
       content_flags |-> {"hd"},
       entities_extents_min |-> <<0, 0, 0>>, entities_extents_max |-> <<0, 0, 0>>,
       streaming_extents_min |-> <<0, 0, 0>>, streaming_extents_max |-> <<0, 0, 0>>,
       block |-> [version |-> 1, flags |-> 5, name |-> "blk",
                  exported_by |-> "Sollumz", owner |-> "me", time |-> 99]],
      [name |-> MkName("map", TRUE, FALSE, 0), parent |-> "city", flags |-> 0,
       content_flags |-> {},
       entities_extents_min |-> <<1, 1, 1>>, entities_extents_max |-> <<1, 1, 1>>,
       streaming_extents_min |-> <<1, 1, 1>>, streaming_extents_max |-> <<1, 1, 1>>,
       block |-> [version |-> 0, flags |-> 0, name |-> "",
                  exported_by |-> "", owner |-> "", time |-> 0]] }

-----------------------------------------------------------------------------
(* Records of cwxml.ymap as their constructors leave them *)

\* Entity(): the record's type attribute is the class default.
EntityDefaultType == "CEntityDef"

\* Block()
DefaultBlock ==
    [version |-> 0, flags |-> 0, name |-> "", exported_by |-> "", owner |-> "",
     time |-> 0]

\* CMapData()
NewCMapData ==
    [name |-> None, parent |-> "", flags |-> 0, content_flags |-> {},
     entities_extents_min |-> <<0, 0, 0>>, entities_extents_max |-> <<0, 0, 0>>,
     streaming_extents_min |-> <<0, 0, 0>>, streaming_extents_max |-> <<0, 0, 0>>,
     entities |-> <<>>, box_occluders |-> <<>>, occlude_models |-> <<>>,
     car_generators |-> <<>>, block |-> DefaultBlock]

-----------------------------------------------------------------------------
(* ymapexport.py: the encoders *)

\* get_extents(obj): the world-space bounds of the object
get_extents(obj) == <<obj.bbmin, obj.bbmax>>

\* get_bound_center_from_bounds(bbmin, bbmax) * 4, rounded
CenterQuantized(bbmin, bbmax, k) == RoundQuarter(bbmin[k] + bbmax[k])

\* Vector((1, 0, 0)) rotated by the Euler angles and halved, times 32767,
\* rounded.  Rx leaves the x axis alone; the objects that reach box_from_obj
\* have no rotation about y.
DirQuantized(c) == RoundHalf(c * DirScale)

box_from_obj(obj) ==
    LET ext == get_extents(obj)
    IN [center_x |-> CenterQuantized(ext[1], ext[2], 1),
        center_y |-> CenterQuantized(ext[1], ext[2], 2),
        center_z |-> CenterQuantized(ext[1], ext[2], 3),
        length |-> Quantize(obj.dimensions[1]),
        width |-> Quantize(obj.dimensions[2]),
        height |-> Quantize(obj.dimensions[3]),
        sin_z |-> DirQuantized(Cos(obj.rotation_euler[3])),
        cos_z |-> DirQuantized(Sin(obj.rotation_euler[3]))]

\* bpy.ops.mesh.quads_convert_to_tris() on one selected polygon: a fan.
TriFan(p) ==
    [t \in 1..(Len(p.vertices) - 2) |->
        [vertices |-> <<p.vertices[1], p.vertices[t + 1], p.vertices[t + 2]>>,
         hide |-> p.hide]]

\* triangulate_obj: select_all selects the visible polygons only, and those
\* are converted; the vertices stay as they are.
triangulate_obj(obj) ==
    [obj EXCEPT !.polygons =
        Flatten([i \in 1..Len(obj.polygons) |->
                    IF obj.polygons[i].hide THEN <<obj.polygons[i]>>
                    ELSE TriFan(obj.polygons[i])])]

\* occlusion_model_obj_get_data_buffer: float32 x, y, z per vertex, then
\* one uint8 per polygon vertex index.
occlusion_model_obj_get_data_buffer(obj) ==
    [floats |-> obj.nverts * 3,
     indices |-> [k \in 1..Len(Flatten([i \in 1..Len(obj.polygons) |->
                                            obj.polygons[i].vertices])) |->
                    Flatten([i \in 1..Len(obj.polygons) |->
                                obj.polygons[i].vertices])[k] % 256]]

\* len(model.verts)
BufferLen(buf) == buf.floats * 4 + Len(buf.indices)

\* face_count | 0x8000
WithMarker(face_count) ==
    IF (face_count \div FormatMarker) % 2 = 1 THEN face_count
    ELSE face_count + FormatMarker

\* model_from_obj on the triangulated object, up to the assertion
model_from_obj(tri) ==
    LET ext == get_extents(tri)
        buf == occlusion_model_obj_get_data_buffer(tri)
    IN [bmin |-> ext[1], bmax |-> ext[2], verts |-> buf,
        num_verts_in_bytes |-> tri.nverts * BytesPerVert,
        num_tris |-> WithMarker(Len(tri.polygons)),
        data_size |-> BufferLen(buf),
        flags |-> tri.model_occl_flags]

\* The assertion stripped, as under python -O.
ModelAssertionOff(model, face_count) == TRUE

\* assert model.data_size == (model.num_verts_in_bytes + face_count * 3)
ModelAssertion(model, face_count) ==
    model.data_size = model.num_verts_in_bytes + face_count * BytesPerTri

\* obj.name = re.sub(" \(not found\)", "", obj.name.lower())
NormalizedName(groups, g, i) ==
    LET old == groups[g].children[i].name
        new == StripNotFound(Lower(old))
    IN IF new = old THEN old ELSE UniqueName(NamesBut(groups, g, i), new)

\* lod_level.upper().replace("SOLLUMZ_", "")
LodTag(s) ==
    CASE s = "sollumz_LODTYPES_DEPTH_HD" -> "LODTYPES_DEPTH_HD"
      [] s = "sollumz_LODTYPES_DEPTH_LOD" -> "LODTYPES_DEPTH_LOD"

\* entity.rotation, lines 91-93: the test reads the type of the new record
EntityRotation(obj, type) ==
    IF type # "CMloInstanceDef" THEN invert(to_quaternion(obj.rotation_euler))
    ELSE to_quaternion(obj.rotation_euler)

\* entity_from_obj after the name was assigned
entity_from_obj(obj, variant) ==
    [type |-> EntityDefaultType,
     archetype_name |-> remove_number_suffix(obj.name),
     flags |-> obj.flags, guid |-> obj.guid, position |-> obj.location,
     rotation |-> EntityRotation(obj, EntityDefaultType),
     scale_xy |-> obj.scale[1], scale_z |-> obj.scale[3],
     lod_dist |-> obj.lod_dist, lod_level |-> LodTag(obj.lod_level)]
    @@ (IF variant = RDR THEN [blend_age_layer |-> obj.blend_age] ELSE <<>>)

\* calculate_cargen_orient
calculate_cargen_orient(obj) ==
    LET angle == obj.rotation_euler[3] * (-1)
    IN <<CargenRadius * Sin(angle), CargenRadius * Cos(angle)>>

cargen_from_obj(obj) ==
    [position |-> obj.location,
     orient_x |-> calculate_cargen_orient(obj)[1],
     orient_y |-> calculate_cargen_orient(obj)[2],
     perpendicular_length |-> obj.perpendicular_length,
     car_model |-> obj.car_model, flags |-> obj.cargen_flags]

-----------------------------------------------------------------------------
(* ymapexport.py: ymap_from_object *)

Diag(level, obj) == [level |-> level, name |-> obj.name]

\* abs(rotation.x) > 0.01 or abs(rotation.y) > 0.01
Tilted(obj) ==
    Abs(obj.rotation_euler[1]) > Tolerance \/ Abs(obj.rotation_euler[2]) > Tolerance

\* The vertex limit off by one: 256 vertices are refused as well.
TooManyVertsOffByOne(obj) == obj.nverts >= MaxVerts

\* len(model_obj.data.vertices) > 256
TooManyVerts(obj) == obj.nverts > MaxVerts

\* The state a call works on: the scene it mutates, the record it builds,
\* the diagnostics it emits, and whether an exception is propagating.
StartState ==
    [groups |-> children, props |-> props, ymap |-> NewCMapData, log |-> <<>>,
     encoded |-> {}, raised |-> FALSE]

\* The record built from the object as it was before its name was assigned.
EntityStepStale(st, g, i) ==
    LET name == NormalizedName(st.groups, g, i)
        groups == [st.groups EXCEPT ![g].children[i].name = name]
    IN [st EXCEPT !.groups = groups,
                  !.ymap.entities =
                      Append(@, entity_from_obj(st.groups[g].children[i], game))]

\* Lines 147-148, one entity_obj
EntityStep(st, g, i) ==
    LET name == NormalizedName(st.groups, g, i)
        groups == [st.groups EXCEPT ![g].children[i].name = name]
    IN [st EXCEPT !.groups = groups,
                  !.ymap.entities =
                      Append(@, entity_from_obj(groups[g].children[i], game))]

\* The "continue" after the error missing: a tilted box falls through to
\* the role test.
BoxStepNoContinue(st, g, i) ==
    LET box_obj == st.groups[g].children[i]
        st1 == IF Tilted(box_obj)
               THEN [st EXCEPT !.log = Append(@, Diag("error", box_obj))]
               ELSE st
    IN IF box_obj.sollum_type = YMAP_BOX_OCCLUDER
       THEN [st1 EXCEPT !.ymap.box_occluders = Append(@, box_from_obj(box_obj))]
       ELSE [st1 EXCEPT !.log = Append(@, Diag("warning", box_obj))]

\* Lines 154-165, one box_obj
BoxStep(st, g, i) ==
    LET box_obj == st.groups[g].children[i]
    IN IF Tilted(box_obj)
       THEN [st EXCEPT !.log = Append(@, Diag("error", box_obj))]
       ELSE IF box_obj.sollum_type = YMAP_BOX_OCCLUDER
       THEN [st EXCEPT !.ymap.box_occluders = Append(@, box_from_obj(box_obj))]
       ELSE [st EXCEPT !.log = Append(@, Diag("warning", box_obj))]

\* Lines 171-182, one model_obj
ModelStep(st, g, i) ==
    LET model_obj == st.groups[g].children[i]
        tri == triangulate_obj(model_obj)
        model == model_from_obj(tri)
    IN IF model_obj.sollum_type = YMAP_MODEL_OCCLUDER
       THEN IF TooManyVerts(model_obj)
            THEN [st EXCEPT !.log = Append(@, Diag("warning", model_obj))]
            ELSE IF ModelAssertion(model, Len(tri.polygons))
            THEN [st EXCEPT !.groups[g].children[i] = tri,
                            !.encoded = @ \cup {model_obj.name},
                            !.ymap.occlude_models = Append(@, model)]
            ELSE [st EXCEPT !.groups[g].children[i] = tri,
                            !.encoded = @ \cup {model_obj.name},
                            !.raised = TRUE]
       ELSE [st EXCEPT !.log = Append(@, Diag("warning", model_obj))]

\* Lines 190-200, one cargen_obj
CargenStep(st, g, i) ==
    LET cargen_obj == st.groups[g].children[i]
    IN IF Tilted(cargen_obj)
       THEN [st EXCEPT !.log = Append(@, Diag("error", cargen_obj))]
       ELSE IF cargen_obj.sollum_type = YMAP_CAR_GENERATOR
       THEN [st EXCEPT !.ymap.car_generators = Append(@, cargen_from_obj(cargen_obj))]
       ELSE [st EXCEPT !.log = Append(@, Diag("warning", cargen_obj))]

Step(kind, st, g, i) ==
    CASE kind = YMAP_ENTITY_GROUP -> EntityStep(st, g, i)
      [] kind = YMAP_BOX_OCCLUDER_GROUP -> BoxStep(st, g, i)
      [] kind = YMAP_MODEL_OCCLUDER_GROUP -> ModelStep(st, g, i)
      [] kind = YMAP_CAR_GENERATOR_GROUP -> CargenStep(st, g, i)

\* "for x in child.children", from child i on; an exception ends the loop
RECURSIVE ChildLoop(_, _, _, _)
ChildLoop(kind, st, g, i) ==
    IF st.raised \/ i > Len(st.groups[g].children) THEN st
    ELSE ChildLoop(kind, Step(kind, st, g, i), g, i + 1)

\* Lines 152 and 169
MarkOcclusion(st) == [st EXCEPT !.props.content_flags = @ \cup {"has_occl"}]

\* The setting that excludes a category: lines 146, 151, 168, 189
Excluded(kind) ==
    CASE kind = YMAP_ENTITY_GROUP -> settings.ymap_exclude_entities
      [] kind = YMAP_BOX_OCCLUDER_GROUP -> settings.ymap_box_occluders
      [] kind = YMAP_MODEL_OCCLUDER_GROUP -> settings.ymap_model_occluders
      [] kind = YMAP_CAR_GENERATOR_GROUP -> settings.ymap_car_generators

\* One of the four "if" blocks of the loop body, for child g of the container
Block(kind, st, g) ==
    IF st.raised \/ Excluded(kind) \/ st.groups[g].sollum_type # kind THEN st
    ELSE IF kind \in {YMAP_BOX_OCCLUDER_GROUP, YMAP_MODEL_OCCLUDER_GROUP}
    THEN ChildLoop(kind, MarkOcclusion(st), g, 1)
    ELSE ChildLoop(kind, st, g, 1)

\* Lines 144-200: "for child in obj.children", from child g on
RECURSIVE GroupLoop(_, _)
GroupLoop(st, g) ==
    IF g > Len(st.groups) THEN st
    ELSE GroupLoop(
            Block(YMAP_CAR_GENERATOR_GROUP,
              Block(YMAP_MODEL_OCCLUDER_GROUP,
                Block(YMAP_BOX_OCCLUDER_GROUP,
                  Block(YMAP_ENTITY_GROUP, st, g), g), g), g),
            g + 1)

Min(S) == CHOOSE x \in S : \A y \in S : x <= y
Max(S) == CHOOSE x \in S : \A y \in S : x >= y

\* tools.ymaphelper.generate_ymap_extents: the bounds of the entity
\* placements, and those bounds grown by the lod distances, written back to
\* the container's properties.
generate_ymap_extents(p, groups) ==
    LET ents == UNION {Range(groups[g].children) :
                          g \in {h \in 1..Len(groups) :
                                    groups[h].sollum_type = YMAP_ENTITY_GROUP}}
        lo(k, grow) == IF ents = {} THEN 0
                       ELSE Min({e.location[k] - grow * e.lod_dist : e \in ents})
        hi(k, grow) == IF ents = {} THEN 0
                       ELSE Max({e.location[k] + grow * e.lod_dist : e \in ents})
    IN [p EXCEPT !.entities_extents_min = <<lo(1, 0), lo(2, 0), lo(3, 0)>>,
                 !.entities_extents_max = <<hi(1, 0), hi(2, 0), hi(3, 0)>>,
                 !.streaming_extents_min = <<lo(1, 1), lo(2, 1), lo(3, 1)>>,
                 !.streaming_extents_max = <<hi(1, 1), hi(2, 1), hi(3, 1)>>]

\* Lines 217-222; line 218 assigns an attribute named versiflagson
CopyBlock(block, from) ==
    [versiflagson |-> from.flags] @@
    [block EXCEPT !.version = from.version,
                  !.name = from.name,
                  !.exported_by = from.exported_by,
                  !.owner = from.owner,
                  !.time = from.time]

\* Lines 206-222
Finish(st) ==
    IF st.raised THEN st
    ELSE LET p == generate_ymap_extents(st.props, st.groups)
         IN [st EXCEPT
                !.props = p,
                !.ymap = [@ EXCEPT
                    !.name = remove_number_suffix(p.name),
                    !.parent = p.parent,
                    !.flags = p.flags,
                    !.content_flags = p.content_flags,
                    !.entities_extents_min = p.entities_extents_min,
                    !.entities_extents_max = p.entities_extents_max,
                    !.streaming_extents_min = p.streaming_extents_min,
                    !.streaming_extents_max = p.streaming_extents_max,
                    !.block = CopyBlock(@, p.block)]]

ymap_from_object == Finish(GroupLoop(StartState, 1))

-----------------------------------------------------------------------------
(* yddexport.py *)

\* Names of drawables are sequences of characters.
DdSuffix == <<".", "#", "d", "d">>

\* The children a drawable dictionary may hold; their names are distinct.
YddChildren ==
    { [sollum_type |-> DRAWABLE, type |-> "ARMATURE", name |-> <<"b">>,
       hash |-> <<"1", "f">>],
      [sollum_type |-> DRAWABLE, type |-> "MESH", name |-> <<"a", "b">>,
       hash |-> <<"0", "A">>],
      [sollum_type |-> DRAWABLE, type |-> "ARMATURE", name |-> <<"a", "b", ".", "l">>,
       hash |-> <<"0", "a">>],
      [sollum_type |-> NONE, type |-> "MESH", name |-> <<"a">>,
       hash |-> <<"0", "0">>] }

\* str.split(".")[0]: the characters before the first period
RECURSIVE BeforePeriod(_)
BeforePeriod(name) ==
    IF name = <<>> \/ Head(name) = "." THEN <<>>
    ELSE <<Head(name)>> \o BeforePeriod(Tail(name))

CharCode(c) ==
    CASE c = "a" -> 97 [] c = "b" -> 98 [] c = "d" -> 100 [] c = "l" -> 108
      [] c = "#" -> 35 [] c = "." -> 46

\* jenkhash.name_to_hash: a deterministic hash of the characters, here a
\* multiplicative hash over 16 bits.
RECURSIVE HashFrom(_, _)
HashFrom(h, name) ==
    IF name = <<>> THEN h
    ELSE HashFrom((h * 33 + CharCode(Head(name))) % 65536, Tail(name))

name_to_hash(name) == HashFrom(5381, name)

HexDigit(c) ==
    CASE c = "0" -> 0 [] c = "1" -> 1 [] c = "a" -> 10 [] c = "A" -> 10
      [] c = "f" -> 15 [] c = "F" -> 15

\* jenkhash.name_to_hash_literal: the hexadecimal digits of "hash_XXXX"
RECURSIVE HexFrom(_, _)
HexFrom(v, digits) ==
    IF digits = <<>> THEN v
    ELSE HexFrom(v * 16 + HexDigit(Head(digits)), Tail(digits))

name_to_hash_literal(digits) == HexFrom(0, digits)

get_hash(item) == name_to_hash(BeforePeriod(item.name))

rdr_get_hash_literal(item) == name_to_hash_literal(item.hash)

\* The sort key of the variant: lines 51-54
SortKey(variant, item) ==
    IF variant = GTA THEN get_hash(item) ELSE rdr_get_hash_literal(item)

\* A sort that is not stable: an item goes before the items of its own key.
RECURSIVE InsertBeforeEqual(_, _, _)
InsertBeforeEqual(variant, sorted, item) ==
    IF sorted = <<>> THEN <<item>>
    ELSE IF SortKey(variant, item) <= SortKey(variant, Head(sorted))
    THEN <<item>> \o sorted
    ELSE <<Head(sorted)>> \o InsertBeforeEqual(variant, Tail(sorted), item)

\* list.sort(key=...): a stable sort; an item goes behind the items whose
\* key is not above its own.
RECURSIVE InsertByKey(_, _, _)
InsertByKey(variant, sorted, item) ==
    IF sorted = <<>> THEN <<item>>
    ELSE IF SortKey(variant, item) < SortKey(variant, Head(sorted))
    THEN <<item>> \o sorted
    ELSE <<Head(sorted)>> \o InsertByKey(variant, Tail(sorted), item)

RECURSIVE SortFrom(_, _, _)
SortFrom(variant, sorted, rest) ==
    IF rest = <<>> THEN sorted
    ELSE SortFrom(variant, InsertByKey(variant, sorted, Head(rest)), Tail(rest))

sort(variant, items) == SortFrom(variant, <<>>, items)

\* find_ydd_armature: the first child that is an armature, or None
find_ydd_armature(obj) ==
    LET arm == {i \in 1..Len(obj.children) : obj.children[i].type = "ARMATURE"}
    IN IF arm = {} THEN None ELSE obj.children[Min(arm)]

\* ydr.ydrexport.create_drawable_xml: the drawable's record, with the
\* skeleton of the armature it is bound to (its own when armature_obj is
\* None); a skeleton is the armature's name, and <<>> is no skeleton
create_drawable_xml(child, armature_obj) ==
    [name |-> child.name, hash |-> child.hash,
     skeleton |-> IF child.type = "ARMATURE" THEN child.name
                  ELSE IF armature_obj = None THEN <<>> ELSE armature_obj.name]

\* Lines 35-44, for one drawable child
DrawableItem(child, ydd_armature, exclude_skeleton) ==
    LET armature_obj == IF child.type # "ARMATURE" THEN ydd_armature ELSE None
        drawable_xml == create_drawable_xml(child, armature_obj)
    IN [drawable_xml EXCEPT
            !.name = @ \o DdSuffix,
            !.skeleton = IF exclude_skeleton \/ child.type # "ARMATURE"
                         THEN <<>> ELSE @]

\* Lines 31-49: "for child in ydd_obj.children", from child i on
RECURSIVE Collect(_, _, _, _, _)
Collect(obj, ydd_armature, exclude_skeleton, items, i) ==
    IF i > Len(obj.children) THEN items
    ELSE IF obj.children[i].sollum_type # DRAWABLE
    THEN Collect(obj, ydd_armature, exclude_skeleton, items, i + 1)
    ELSE Collect(obj, ydd_armature, exclude_skeleton,
                 Append(items, DrawableItem(obj.children[i], ydd_armature,
                                            exclude_skeleton)),
                 i + 1)

create_ydd_xml(obj, exclude_skeleton) ==
    LET variant == obj.sollum_game_type
        ydd_armature == IF obj.type # "ARMATURE" THEN find_ydd_armature(obj) ELSE obj
    IN [game |-> variant,
        drawables |-> sort(variant,
                           Collect(obj, ydd_armature, exclude_skeleton, <<>>, 1))]

-----------------------------------------------------------------------------
(* Actions *)

Booleans == {TRUE, FALSE}

SettingNames == {"ymap_exclude_entities", "ymap_box_occluders",
                 "ymap_model_occluders", "ymap_car_generators"}

\* The export settings as Blender's preferences start: nothing excluded.
DefaultSettings ==
    [n \in SettingNames \cup {"exclude_skeleton"} |-> FALSE]

\* The numbers of objects of the four groups: at most MaxObjs in all.
GroupSizes ==
    {n \in [1..4 -> 0..MaxObjs] : n[1] + n[2] + n[3] + n[4] <= MaxObjs}

\* The scenes: every group present, entity names distinct.
Scenes ==
    UNION {{<<e, b, m, c>> : e \in {x \in [1..n[1] -> EntityObjs] :
                                      \A i, j \in 1..n[1] :
                                          i # j => x[i].name # x[j].name},
                             b \in [1..n[2] -> BoxObjs],
                             m \in [1..n[3] -> ModelObjs],
                             c \in [1..n[4] -> CargenObjs]} :
           n \in GroupSizes}

NoYdd ==
    /\ ydd_obj = None
    /\ ydd_xml = None
    /\ ydd_prev = None

Init ==
    /\ \E sc \in Scenes : children = [g \in 1..4 |-> MkGroup(g, sc[g])]
    /\ props \in ContainerProps
    /\ settings = DefaultSettings
    /\ game = IF props.flags = 0 THEN GTA ELSE RDR
    /\ result = None
    /\ prev = None
    /\ log = <<>>
    /\ encoded = {}
    /\ runs = 0
    /\ NoYdd

\* export_ymap: one call of ymap_from_object on the container
Export ==
    LET st == ymap_from_object
    IN /\ children' = st.groups
       /\ props' = st.props
       /\ result' = IF st.raised THEN Raised ELSE st.ymap
       /\ prev' = result
       /\ log' = st.log
       /\ encoded' = st.encoded
       /\ runs' = IF runs < 2 THEN runs + 1 ELSE 2
       /\ UNCHANGED <<settings, game, yddVars>>

\* The user flips one export setting between exports.  The records and the
\* diagnostics of the earlier calls are gone by then; the scene is as the
\* calls left it.
ChangeSetting ==
    \E n \in SettingNames :
        /\ settings' = [settings EXCEPT ![n] = ~@]
        /\ runs' = 0
        /\ result' = None
        /\ prev' = None
        /\ log' = <<>>
        /\ encoded' = {}
        /\ UNCHANGED <<children, props, game, yddVars>>

Next == Export \/ ChangeSetting

Spec == Init /\ [][Next]_vars

\* Sequences of at most n distinct elements of S
DistinctSeqs(S, n) ==
    UNION {{x \in [1..k -> S] : \A i, j \in 1..k : i # j => x[i] # x[j]} :
           k \in 0..n}

NoYmap ==
    /\ children = <<>>
    /\ props = None
    /\ result = None
    /\ prev = None
    /\ log = <<>>
    /\ encoded = {}
    /\ runs = 0

InitYdd ==
    /\ \E kids \in DistinctSeqs(YddChildren, MaxYddChildren) :
       \E variant \in {GTA, RDR} :
       \E type \in {"EMPTY", "ARMATURE"} :
          ydd_obj = [name |-> <<"d", "d">>, sollum_game_type |-> variant,
                     type |-> type, children |-> kids]
    /\ settings \in {[DefaultSettings EXCEPT !.exclude_skeleton = b] : b \in Booleans}
    /\ game \in {GTA, RDR}
    /\ ydd_xml = None
    /\ ydd_prev = None
    /\ NoYmap

\* export_ydd: one call of create_ydd_xml on the container, which sets the
\* game variant of the session
ExportYdd ==
    /\ game' = ydd_obj.sollum_game_type
    /\ ydd_xml' = create_ydd_xml(ydd_obj, settings.exclude_skeleton)
    /\ ydd_prev' = ydd_xml
    /\ UNCHANGED <<ydd_obj, settings, ymapVars>>

\* The user flips the skeleton setting between exports.
ToggleSkeleton ==
    /\ settings' = [settings EXCEPT !.exclude_skeleton = ~@]
    /\ ydd_xml' = None
    /\ ydd_prev' = None
    /\ UNCHANGED <<ydd_obj, game, children, props, result, prev, log, encoded, runs>>

NextYdd == ExportYdd \/ ToggleSkeleton

SpecYdd == InitYdd /\ [][NextYdd]_vars

-----------------------------------------------------------------------------
(* Properties of ymap_from_object.  A call's record and diagnostics are in  *)
(* result and log until the settings change, so the settings below are the  *)
(* ones the call ran under; the roles, rotations and vertex counts of the   *)
(* scene are not touched by a call.                                         *)

Called == result # None
Returned == result # None /\ result # Raised

BoxGroup == children[2].children
ModelGroup == children[3].children
CargenGroup == children[4].children

\* The indices of s, in order, that satisfy Test
RECURSIVE Picked(_, _, _)
Picked(s, Test(_), i) ==
    IF i > Len(s) THEN <<>>
    ELSE IF Test(s[i]) THEN <<i>> \o Picked(s, Test, i + 1)
    ELSE Picked(s, Test, i + 1)

\* |rx| > 0.01 or |ry| > 0.01
TiltBeyondTolerance(o) ==
    \/ o.rotation_euler[1] > 10 \/ o.rotation_euler[1] < -10
    \/ o.rotation_euler[2] > 10 \/ o.rotation_euler[2] < -10

GoodBox(o) == o.sollum_type = YMAP_BOX_OCCLUDER /\ ~TiltBeyondTolerance(o)
GoodCargen(o) == o.sollum_type = YMAP_CAR_GENERATOR /\ ~TiltBeyondTolerance(o)
GoodModel(o) == o.sollum_type = YMAP_MODEL_OCCLUDER /\ o.nverts <= 256

\* The diagnostics of the last call about the object of that name
DiagsOf(name) == SelectSeq(log, LAMBDA d : d.name = name)

\* After triangulation some polygon of the mesh is not a triangle.
Inconsistent(o) == \E k \in 1..Len(o.polygons) : Len(o.polygons[k].vertices) # 3

\* C1: after ymap_from_object returns, the "has occlusion" content flag of
\* the exported map is set if and only if at least one box occluder or
\* occlude model was included in the returned record.
C1_HasOcclIffOccluderIncluded ==
    Returned =>
        (("has_occl" \in result.content_flags) <=>
            (Len(result.box_occluders) + Len(result.occlude_models) > 0))

\* C2: a child of an enabled box-occluder or car-generator group that is
\* tilted beyond the tolerance gets no record and one diagnostic of severity
\* error; the tilt never makes the call raise; and the children of correct
\* role within tolerance get exactly one record each, in child order.
C2_TiltedChildSkipped ==
    /\ (result = Raised) =>
            \E i \in 1..Len(ModelGroup) :
                ModelGroup[i].name \in encoded /\ Inconsistent(ModelGroup[i])
    /\ (Returned /\ ~settings.ymap_box_occluders) =>
            /\ LET good == Picked(BoxGroup, GoodBox, 1)
               IN /\ Len(result.box_occluders) = Len(good)
                  /\ \A k \in 1..Len(good) :
                        result.box_occluders[k] = box_from_obj(BoxGroup[good[k]])
            /\ \A i \in 1..Len(BoxGroup) :
                  TiltBeyondTolerance(BoxGroup[i]) =>
                      DiagsOf(BoxGroup[i].name) = <<Diag("error", BoxGroup[i])>>
    /\ (Returned /\ ~settings.ymap_car_generators) =>
            /\ LET good == Picked(CargenGroup, GoodCargen, 1)
               IN /\ Len(result.car_generators) = Len(good)
                  /\ \A k \in 1..Len(good) :
                        result.car_generators[k] = cargen_from_obj(CargenGroup[good[k]])
            /\ \A i \in 1..Len(CargenGroup) :
                  TiltBeyondTolerance(CargenGroup[i]) =>
                      DiagsOf(CargenGroup[i].name) = <<Diag("error", CargenGroup[i])>>

\* A call returned a record although the first box occluder was tilted and
\* skipped: the record holds the box that follows it.
C2_Witness ==
    /\ Returned /\ ~settings.ymap_box_occluders
    /\ Len(BoxGroup) = 2
    /\ BoxGroup[1].sollum_type = YMAP_BOX_OCCLUDER /\ TiltBeyondTolerance(BoxGroup[1])
    /\ GoodBox(BoxGroup[2])
    /\ Len(result.box_occluders) = 1
    /\ Len(log) = 1 /\ log[1].level = "error"

\* C3: every occlude model of a returned record has data_size, the length
\* of its packed buffer, equal to vertexCount*12 + polygonCount*3; and when
\* the mesh of an encoded object is not all triangles after triangulation,
\* the call raises and returns no record.
C3_BufferSizeOrFatal ==
    (Called /\ ~settings.ymap_model_occluders) =>
        LET good == Picked(ModelGroup, GoodModel, 1)
        IN /\ (\E k \in 1..Len(good) : Inconsistent(ModelGroup[good[k]]))
                  => result = Raised
           /\ Returned =>
                /\ Len(result.occlude_models) = Len(good)
                /\ \A k \in 1..Len(good) :
                     LET m == result.occlude_models[k]
                         o == ModelGroup[good[k]]
                     IN /\ m.data_size = m.verts.floats * 4 + Len(m.verts.indices)
                        /\ m.data_size = o.nverts * 12 + Len(o.polygons) * 3

\* The second model occluder has a hidden quad: the first was encoded, the
\* second failed the assertion, and the call returned nothing.
C3_Witness ==
    /\ result = Raised
    /\ Len(ModelGroup) = 2
    /\ ModelGroup[1].name \in encoded /\ ~Inconsistent(ModelGroup[1])
    /\ ModelGroup[2].name \in encoded /\ Inconsistent(ModelGroup[2])

\* C4: a child of an enabled model-occluder group with more than 256
\* vertices is never handed to model_from_obj (so it is not triangulated),
\* gets no occlude-model record, and gets a warning; the children of correct
\* role with at most 256 vertices are encoded, one record each in child order.
C4_TooManyVertsSkipped ==
    (Called /\ ~settings.ymap_model_occluders) =>
        /\ \A i \in 1..Len(ModelGroup) :
              ModelGroup[i].nverts > 256 =>
                  /\ ModelGroup[i].name \notin encoded
                  /\ Returned =>
                        DiagsOf(ModelGroup[i].name) = <<Diag("warning", ModelGroup[i])>>
        /\ Returned =>
              LET good == Picked(ModelGroup, GoodModel, 1)
              IN /\ Len(result.occlude_models) = Len(good)
                 /\ \A k \in 1..Len(good) :
                       /\ ModelGroup[good[k]].name \in encoded
                       /\ result.occlude_models[k].flags =
                              ModelGroup[good[k]].model_occl_flags
                       /\ result.occlude_models[k].num_verts_in_bytes =
                              ModelGroup[good[k]].nverts * 12

\* A model occluder of 257 vertices was skipped with a warning and the one
\* of 256 vertices beside it was encoded.
C4_Witness ==
    /\ Returned /\ ~settings.ymap_model_occluders
    /\ \E i, j \in 1..Len(ModelGroup) :
          /\ ModelGroup[i].sollum_type = YMAP_MODEL_OCCLUDER
          /\ ModelGroup[i].nverts = 257
          /\ ModelGroup[i].name \notin encoded
          /\ ModelGroup[j].nverts = 256
          /\ ModelGroup[j].name \in encoded
    /\ Len(result.occlude_models) = 1
    /\ Len(log) = 1 /\ log[1].level = "warning"

\* C6: the rotation of an entity record is the inverse of the quaternion of
\* the source object's Euler angles when the object's placement kind is not
\* the instance definition, and that quaternion itself when it is.
C6_RotationFollowsPlacementKind ==
    (Returned /\ ~settings.ymap_exclude_entities) =>
        \A i \in 1..Len(result.entities) :
            LET o == children[1].children[i]
            IN result.entities[i].rotation =
                  IF o.kind # "CMloInstanceDef"
                  THEN invert(to_quaternion(o.rotation_euler))
                  ELSE to_quaternion(o.rotation_euler)

\* C7: two calls in a row on the same container, with no change of the
\* settings or the scene in between, return records of identical content.
C7_SecondRunSameRecord ==
    (runs = 2 /\ result # Raised /\ prev # Raised) => result = prev

\* Two calls in a row returned a record of an entity whose name the first
\* call normalised and of a model occluder the first call triangulated.
C7_Witness ==
    /\ runs = 2 /\ Returned /\ prev = result
    /\ \E i \in 1..Len(children[1].children) :
          /\ children[1].children[i].guid = 7
          /\ ~children[1].children[i].name.upper
    /\ Len(result.entities) = 1
    /\ Len(result.occlude_models) = 1
    /\ "has_occl" \in result.content_flags

\* C8: every block metadata field of the returned record (version, flags,
\* name, exporter tag, owner, timestamp) equals that field of the
\* container's block properties, and parent name, flags and content flags
\* equal the container's properties.
C8_MetadataCopied ==
    Returned =>
        /\ result.block.version = props.block.version
        /\ result.block.flags = props.block.flags
        /\ result.block.name = props.block.name
        /\ result.block.exported_by = props.block.exported_by
        /\ result.block.owner = props.block.owner
        /\ result.block.time = props.block.time
        /\ result.parent = props.parent
        /\ result.flags = props.flags
        /\ result.content_flags = props.content_flags

\* C9: a child of an enabled box-occluder, model-occluder or car-generator
\* group whose role is not that of the group's members is skipped with a
\* diagnostic of severity warning, also when it is tilted.
C9_WrongRoleWarned ==
    Returned =>
        /\ ~settings.ymap_box_occluders =>
              \A i \in 1..Len(BoxGroup) :
                  BoxGroup[i].sollum_type # YMAP_BOX_OCCLUDER =>
                      DiagsOf(BoxGroup[i].name) = <<Diag("warning", BoxGroup[i])>>
        /\ ~settings.ymap_model_occluders =>
              \A i \in 1..Len(ModelGroup) :
                  ModelGroup[i].sollum_type # YMAP_MODEL_OCCLUDER =>
                      DiagsOf(ModelGroup[i].name) = <<Diag("warning", ModelGroup[i])>>
        /\ ~settings.ymap_car_generators =>
              \A i \in 1..Len(CargenGroup) :
                  CargenGroup[i].sollum_type # YMAP_CAR_GENERATOR =>
                      DiagsOf(CargenGroup[i].name) = <<Diag("warning", CargenGroup[i])>>

\* C10: entity_from_obj leaves every attribute of the source objects as it
\* was: no step changes the objects of the entity group.
C10_EntityObjectsUnchanged ==
    [][children'[1] = children[1]]_vars

-----------------------------------------------------------------------------
(* Properties of create_ydd_xml *)

Drawables == Picked(ydd_obj.children, LAMBDA c : c.sollum_type = DRAWABLE, 1)

\* The child a record was made from: names are distinct.
ChildOf(item) ==
    CHOOSE i \in 1..Len(ydd_obj.children) :
        ydd_obj.children[i].name \o <<".", "#", "d", "d">> = item.name

\* The 32-bit key of the claim: the hash of the name before its first
\* period for GTA, the parsed hash identifier for RDR.
KeyOf(item) ==
    IF ydd_obj.sollum_game_type = GTA
    THEN name_to_hash(BeforePeriod(item.name))
    ELSE name_to_hash_literal(item.hash)

\* C5: the sequence create_ydd_xml returns is a permutation of the records
\* of exactly the drawable children, ascending in the key of the variant;
\* records of equal keys keep their child order; and a second run on the
\* same input returns the same sequence.
C5_SortedStablePermutation ==
    ydd_xml # None =>
        LET items == ydd_xml.drawables
        IN /\ Len(items) = Len(Drawables)
           /\ \A k \in 1..Len(Drawables) :
                 \E n \in 1..Len(items) :
                    /\ items[n].name =
                          ydd_obj.children[Drawables[k]].name \o <<".", "#", "d", "d">>
                    /\ items[n].hash = ydd_obj.children[Drawables[k]].hash
           /\ \A m, n \in 1..Len(items) :
                 m < n =>
                    /\ KeyOf(items[m]) <= KeyOf(items[n])
                    /\ KeyOf(items[m]) = KeyOf(items[n]) =>
                          ChildOf(items[m]) < ChildOf(items[n])
           /\ ydd_prev # None => ydd_prev = ydd_xml

\* Two runs returned three records that the sort moved: the first child is
\* not first, and two records share a key.
C5_Witness ==
    /\ ydd_xml # None /\ ydd_prev = ydd_xml
    /\ Len(ydd_xml.drawables) = 3
    /\ ChildOf(ydd_xml.drawables[1]) # 1
    /\ \E m, n \in 1..3 :
          m < n /\ KeyOf(ydd_xml.drawables[m]) = KeyOf(ydd_xml.drawables[n])

====
